---- MODULE Spec2Model ----
(***************************************************************************)
(* Model of Extra_optimistic/script/cifar10.py: the improved-WGAN training *)
(* script.  The module-level script is a sequential program; pc is its     *)
(* position.  The two loss functions and the RandomWeightedAverage merge   *)
(* are pure functions, modelled as operators over exact fixed-point /      *)
(* rational numbers and exercised by the specification FnSpec.             *)
(***************************************************************************)
EXTENDS Integers, Sequences, FiniteSets, TLC

VARIABLES
    pc,                   \* position in the module-level script
    err,                  \* the exception that ended the run, or "none"
    args,                 \* argparse namespace (the fields the script branches on)
    nSamples,             \* X_train.shape[0]
    trainable,            \* .trainable of the two networks and of their layers
    generator_model,      \* composed generator-training graph
    discriminator_model,  \* composed discriminator-training graph
    optim,                \* d_optim / g_optim
    labels,               \* positive_y / negative_y / dummy_y
    epoch,                \* loop variable of "for epoch in range(50)"
    numGroups,            \* length of range(...) of the minibatch loop
    i,                    \* loop variable of the minibatch-group loop
    j,                    \* loop variable of the discriminator loop
    minibatch,            \* discriminator_minibatches, as an index range of X_train
    lastStep,             \* arguments of the latest train_on_batch call
    trace,                \* training steps of the current epoch, in order
    used,                 \* index ranges of the image batches of the current epoch
    weights,              \* update counts of the two networks' weights
    saved,                \* weights held by the latest save_weights calls
    files,                \* files written to args.output_dir
    shuffles,             \* number of np.random.shuffle(X_train) calls
    call                  \* latest evaluation of a pure function (FnSpec)

vars == <<pc, err, args, nSamples, trainable, generator_model, discriminator_model,
          optim, labels, epoch, numGroups, i, j, minibatch, lastStep, trace, used,
          weights, saved, files, shuffles, call>>

runVars == <<pc, err, args, nSamples, trainable, generator_model, discriminator_model,
             optim, labels, epoch, numGroups, i, j, minibatch, lastStep, trace, used,
             weights, saved, files, shuffles>>

-----------------------------------------------------------------------------
(* Program constants *)

BATCH_SIZE == 64

NumEpochs == 50

CheckpointEvery == 2

DefaultGP == 10

DefaultRatio == 5

(* Bounds of the model *)

MaxRatio == 2

MaxBatches == 2

\* Pure functions: batch lengths and value ranges of the loss inputs.
MaxLen == 2

MaxVal == 1

\* Fixed-point resolution of the gradients (GScale units make 1.0).
GScale == 2

GradDim == 2

MaxGP == 1

\* Averaged samples: pairs per batch, components per sample, and the
\* resolution of the uniform weights (WeightRes steps make 1.0).
AvgPairs == 1

SampleDim == 2

WeightRes == 2

-----------------------------------------------------------------------------
(* Command line *)

None == "None"

Schedules == {None, "adagrad", "adam", "cosine"}

Optimizers == {"SGD", "OFRL", "OMDA", "optimAdam", "extraOptimAdam", "optimAdagrad",
               "RMSprop"}

ModelChoices == {"resnet", "std_conv"}

Ratios == (-1)..MaxRatio

ValidSchedules == {None, "adagrad", "adam"}

optim_mapper == {"OFRL", "OMDA", "optimAdam", "extraOptimAdam", "optimAdagrad"}

\* Sizes of the loaded data set: whole batches, and whole batches plus a remainder.
DataSizes == {k * BATCH_SIZE + r : k \in 0..MaxBatches, r \in {0, BATCH_SIZE - 1}}

Min(a, b) == IF a <= b THEN a ELSE b

\* Python's a // b (floor division) for b # 0.
FloorDiv(a, b) == IF b > 0 THEN a \div b ELSE (0 - a) \div (0 - b)

\* len(range(n))
RangeLen(n) == IF n > 0 THEN n ELSE 0

\* seq[lo:hi] of a sequence of length n, for 0 <= lo <= hi: the index range kept.
Slice(lo, hi, n) == [lo |-> Min(lo, n), hi |-> Min(hi, n)]

DiscriminatorLayers == 1..10

GeneratorLayers == 1..15

NoStep == [kind |-> "none"]

NoCall == [fn |-> "none", done |-> FALSE]

Unset == [set |-> FALSE]

-----------------------------------------------------------------------------
(* State after argument parsing (lines 229-250) *)

RunInit ==
    /\ pc = "load_data"
    /\ err = "none"
    /\ nSamples = 0
    /\ trainable = Unset
    /\ generator_model = Unset
    /\ discriminator_model = Unset
    /\ optim = Unset
    /\ labels = Unset
    /\ epoch = -1
    /\ numGroups = 0
    /\ i = -1
    /\ j = -1
    /\ minibatch = [lo |-> 0, hi |-> 0]
    /\ lastStep = NoStep
    /\ trace = <<>>
    /\ used = <<>>
    /\ weights = [g |-> 0, d |-> 0]
    /\ saved = [g |-> -1, d |-> -1]
    /\ files = {}
    /\ shuffles = 0

Init ==
    /\ RunInit
    /\ args \in [optimizer : Optimizers, schedule : Schedules,
                 model : ModelChoices, training_ratio : Ratios]
    /\ call = NoCall

\* An uncaught exception at module level ends the process.
Raise(e) ==
    /\ pc' = "error"
    /\ err' = e

-----------------------------------------------------------------------------
(* Start-up: data, networks, composed graphs, optimizers (lines 252-377) *)

\* cifar10.load_data() and the concatenation of the train and test splits.
LoadData ==
    /\ pc = "load_data"
    /\ \E n \in DataSizes : nSamples' = n
    /\ pc' = "make_networks"
    /\ UNCHANGED <<err, args, trainable, generator_model, discriminator_model, optim,
                   labels, epoch, numGroups, i, j, minibatch, lastStep, trace, used,
                   weights, saved, files, shuffles, call>>

\* A freshly built Keras network and each of its layers is trainable.
FreshFlags ==
    [d |-> TRUE, g |-> TRUE,
     dl |-> [l \in DiscriminatorLayers |-> TRUE],
     gl |-> [l \in GeneratorLayers |-> TRUE]]

\* make_generator() / make_discriminator(); the resnet builders call
\* residual_block, which reads x before any assignment to it.
MakeNetworks ==
    /\ pc = "make_networks"
    /\ IF args.model = "std_conv"
         THEN /\ trainable' = FreshFlags
              /\ pc' = "build_generator_model"
              /\ err' = err
         ELSE /\ Raise("NameError")
              /\ trainable' = trainable
    /\ UNCHANGED <<args, nSamples, generator_model, discriminator_model, optim,
                   labels, epoch, numGroups, i, j, minibatch, lastStep, trace, used,
                   weights, saved, files, shuffles, call>>

\* for layer in net.layers: layer.trainable = v ; net.trainable = v
SetTrainable(flags, net, v) ==
    IF net = "d"
      THEN [flags EXCEPT !.d = v, !.dl = [l \in DiscriminatorLayers |-> v]]
      ELSE [flags EXCEPT !.g = v, !.gl = [l \in GeneratorLayers |-> v]]

\* Freeze the discriminator, then compose generator -> discriminator.
BuildGeneratorModel ==
    /\ pc = "build_generator_model"
    /\ trainable' = SetTrainable(trainable, "d", FALSE)
    /\ generator_model' = [set |-> TRUE, inputs |-> <<"noise">>,
                           outputs |-> <<"generated">>, compiled |-> FALSE]
    /\ pc' = "check_schedule"
    /\ UNCHANGED <<err, args, nSamples, discriminator_model, optim, labels, epoch,
                   numGroups, i, j, minibatch, lastStep, trace, used, weights, saved,
                   files, shuffles, call>>

\* Mutant: the schedule is never checked.
CheckSchedule_NoCheck ==
    /\ pc = "check_schedule"
    /\ pc' = "make_optimizers"
    /\ UNCHANGED <<err, args, nSamples, trainable, generator_model, discriminator_model,
                   optim, labels, epoch, numGroups, i, j, minibatch, lastStep, trace,
                   used, weights, saved, files, shuffles, call>>

\* if args.schedule not in [None, 'adagrad', 'adam']: raise ValueError
CheckSchedule ==
    /\ pc = "check_schedule"
    /\ IF args.schedule \notin ValidSchedules
         THEN Raise("ValueError")
         ELSE /\ pc' = "make_optimizers"
              /\ err' = err
    /\ UNCHANGED <<args, nSamples, trainable, generator_model, discriminator_model,
                   optim, labels, epoch, numGroups, i, j, minibatch, lastStep, trace,
                   used, weights, saved, files, shuffles, call>>

\* The optimizer class the script instantiates (for d_optim and for g_optim alike),
\* or "KeyError" when optim_mapper[args.optimizer] fails.
OptimizerClass(a) ==
    IF a.optimizer = "SGD"
      THEN IF a.schedule = "adam" THEN "Adam"
           ELSE IF a.schedule = "adagrad" THEN "Adagrad" ELSE "SGD"
      ELSE IF a.optimizer \in optim_mapper THEN a.optimizer ELSE "KeyError"

MakeOptimizers ==
    /\ pc = "make_optimizers"
    /\ IF OptimizerClass(args) = "KeyError"
         THEN /\ Raise("KeyError")
              /\ optim' = optim
         ELSE /\ optim' = [set |-> TRUE, d |-> OptimizerClass(args),
                           g |-> OptimizerClass(args)]
              /\ pc' = "compile_generator_model"
              /\ err' = err
    /\ UNCHANGED <<args, nSamples, trainable, generator_model, discriminator_model,
                   labels, epoch, numGroups, i, j, minibatch, lastStep, trace, used,
                   weights, saved, files, shuffles, call>>

\* compile() collects the trainable weights: later changes of .trainable have no
\* effect within the compiled model.
CompileGeneratorModel ==
    /\ pc = "compile_generator_model"
    /\ generator_model' = [generator_model EXCEPT !.compiled = TRUE] @@
                          [flags |-> trainable, optimizer |-> optim.g,
                           loss |-> <<"wasserstein_loss">>]
    /\ pc' = "flip_trainable"
    /\ UNCHANGED <<err, args, nSamples, trainable, discriminator_model, optim, labels,
                   epoch, numGroups, i, j, minibatch, lastStep, trace, used, weights,
                   saved, files, shuffles, call>>

\* Mutant: the generator is left trainable.
FlipTrainable_NoFreeze ==
    /\ pc = "flip_trainable"
    /\ trainable' = SetTrainable(trainable, "d", TRUE)
    /\ pc' = "build_discriminator_model"
    /\ UNCHANGED <<err, args, nSamples, generator_model, discriminator_model, optim,
                   labels, epoch, numGroups, i, j, minibatch, lastStep, trace, used,
                   weights, saved, files, shuffles, call>>

\* Discriminator layers trainable again, generator layers frozen.
FlipTrainable ==
    /\ pc = "flip_trainable"
    /\ trainable' = SetTrainable(SetTrainable(trainable, "d", TRUE), "g", FALSE)
    /\ pc' = "build_discriminator_model"
    /\ UNCHANGED <<err, args, nSamples, generator_model, discriminator_model, optim,
                   labels, epoch, numGroups, i, j, minibatch, lastStep, trace, used,
                   weights, saved, files, shuffles, call>>

\* Model(inputs=[real_samples, noise], outputs=[real, generated, averaged])
BuildDiscriminatorModel ==
    /\ pc = "build_discriminator_model"
    /\ discriminator_model' = [set |-> TRUE, inputs |-> <<"real_samples", "noise">>,
                               outputs |-> <<"real", "generated", "averaged">>,
                               compiled |-> FALSE]
    /\ pc' = "compile_discriminator_model"
    /\ UNCHANGED <<err, args, nSamples, trainable, generator_model, optim, labels,
                   epoch, numGroups, i, j, minibatch, lastStep, trace, used, weights,
                   saved, files, shuffles, call>>

CompileDiscriminatorModel ==
    /\ pc = "compile_discriminator_model"
    /\ discriminator_model' = [discriminator_model EXCEPT !.compiled = TRUE] @@
                              [flags |-> trainable, optimizer |-> optim.d,
                               loss |-> <<"wasserstein_loss", "wasserstein_loss",
                                          "gradient_penalty">>]
    /\ pc' = "make_labels"
    /\ UNCHANGED <<err, args, nSamples, trainable, generator_model, optim, labels,
                   epoch, numGroups, i, j, minibatch, lastStep, trace, used, weights,
                   saved, files, shuffles, call>>

\* np.ones((BATCH_SIZE, 1))
Ones == [k \in 1..BATCH_SIZE |-> 1]

\* -positive_y
Negate(v) == [k \in DOMAIN v |-> 0 - v[k]]

\* np.zeros((BATCH_SIZE, 1))
Zeros == [k \in 1..BATCH_SIZE |-> 0]

MakeLabels ==
    /\ pc = "make_labels"
    /\ labels' = [set |-> TRUE, positive_y |-> Ones, negative_y |-> Negate(Ones),
                  dummy_y |-> Zeros]
    /\ pc' = "for_epoch"
    /\ UNCHANGED <<err, args, nSamples, trainable, generator_model, discriminator_model,
                   optim, epoch, numGroups, i, j, minibatch, lastStep, trace, used,
                   weights, saved, files, shuffles, call>>

Startup ==
    \/ LoadData
    \/ MakeNetworks
    \/ BuildGeneratorModel
    \/ CheckSchedule
    \/ MakeOptimizers
    \/ CompileGeneratorModel
    \/ FlipTrainable
    \/ BuildDiscriminatorModel
    \/ CompileDiscriminatorModel
    \/ MakeLabels

-----------------------------------------------------------------------------
(* Training loop (lines 379-405) *)

\* Whether a model compiled with these flags updates the weights of net:
\* a container that is not trainable contributes no trainable weights, and
\* otherwise it contributes those of its trainable layers.
Trains(flags, net) ==
    IF net = "d"
      THEN flags.d /\ \E l \in DiscriminatorLayers : flags.dl[l]
      ELSE flags.g /\ \E l \in GeneratorLayers : flags.gl[l]

\* The weights after one optimizer step of a compiled model.
Updated(w, flags) ==
    [d |-> IF Trains(flags, "d") THEN w.d + 1 ELSE w.d,
     g |-> IF Trains(flags, "g") THEN w.g + 1 ELSE w.g]

\* Mutant: the discriminator loop written as range(TRAINING_RATIO + 1).
DiscLoopLen_OffByOne == RangeLen(args.training_ratio + 1)

\* len(range(TRAINING_RATIO)): the iterations of the discriminator loop.
DiscLoopLen == RangeLen(args.training_ratio)

\* Mutant: the group size without the training ratio.
MinibatchesSize_NoRatio == BATCH_SIZE

\* minibatches_size = BATCH_SIZE * TRAINING_RATIO
MinibatchesSize == BATCH_SIZE * args.training_ratio

\* for epoch in range(50): shuffle, reset the accumulators, and evaluate
\* range(int(X_train.shape[0] // (BATCH_SIZE * TRAINING_RATIO))).
EpochStart ==
    /\ pc = "for_epoch"
    /\ epoch + 1 < NumEpochs
    /\ epoch' = epoch + 1
    /\ shuffles' = shuffles + 1
    /\ trace' = <<>>
    /\ used' = <<>>
    /\ i' = -1
    /\ IF BATCH_SIZE * args.training_ratio = 0
         THEN /\ Raise("ZeroDivisionError")
              /\ numGroups' = numGroups
         ELSE /\ numGroups' = RangeLen(FloorDiv(nSamples, BATCH_SIZE * args.training_ratio))
              /\ pc' = "for_i"
              /\ err' = err
    /\ UNCHANGED <<args, nSamples, trainable, generator_model, discriminator_model,
                   optim, labels, j, minibatch, lastStep, weights, saved, files, call>>

\* Mutant: early stopping, the loop may be left after any epoch.
Finish_EarlyStop ==
    /\ pc = "for_epoch"
    /\ epoch >= 0
    /\ pc' = "done"
    /\ UNCHANGED <<err, args, nSamples, trainable, generator_model, discriminator_model,
                   optim, labels, epoch, numGroups, i, j, minibatch, lastStep, trace,
                   used, weights, saved, files, shuffles, call>>

\* range(50) is exhausted: the script ends.
Finish ==
    /\ pc = "for_epoch"
    /\ epoch + 1 >= NumEpochs
    /\ pc' = "done"
    /\ UNCHANGED <<err, args, nSamples, trainable, generator_model, discriminator_model,
                   optim, labels, epoch, numGroups, i, j, minibatch, lastStep, trace,
                   used, weights, saved, files, shuffles, call>>

\* discriminator_minibatches = X_train[i * minibatches_size:(i + 1) * minibatches_size]
GroupStart ==
    /\ pc = "for_i"
    /\ i + 1 < numGroups
    /\ i' = i + 1
    /\ minibatch' = Slice((i + 1) * MinibatchesSize, (i + 2) * MinibatchesSize, nSamples)
    /\ j' = -1
    /\ pc' = "for_j"
    /\ UNCHANGED <<err, args, nSamples, trainable, generator_model, discriminator_model,
                   optim, labels, epoch, numGroups, lastStep, trace, used, weights,
                   saved, files, shuffles, call>>

\* image_batch = discriminator_minibatches[j * BATCH_SIZE:(j + 1) * BATCH_SIZE],
\* as an index range of X_train.
ImageBatch(mb, jj) ==
    [lo |-> mb.lo + Slice(jj * BATCH_SIZE, (jj + 1) * BATCH_SIZE, mb.hi - mb.lo).lo,
     hi |-> mb.lo + Slice(jj * BATCH_SIZE, (jj + 1) * BATCH_SIZE, mb.hi - mb.lo).hi]

\* Mutant: the first two label vectors in the other order.
DiscriminatorTargets_Swapped == <<labels.negative_y, labels.positive_y, labels.dummy_y>>

\* y of discriminator_model.train_on_batch
DiscriminatorTargets == <<labels.positive_y, labels.negative_y, labels.dummy_y>>

\* y of generator_model.train_on_batch
GeneratorTargets == <<labels.positive_y>>

DiscCall ==
    [kind |-> "D", x |-> <<ImageBatch(minibatch, j + 1), "noise">>,
     y |-> DiscriminatorTargets]

GenCall == [kind |-> "G", x |-> <<"noise">>, y |-> GeneratorTargets]

\* One discriminator_model.train_on_batch that returns its loss.
DiscStep ==
    /\ pc = "for_j"
    /\ j + 1 < DiscLoopLen
    /\ j' = j + 1
    /\ lastStep' = DiscCall
    /\ used' = Append(used, ImageBatch(minibatch, j + 1))
    /\ trace' = Append(trace, "D")
    /\ weights' = Updated(weights, discriminator_model.flags)
    /\ UNCHANGED <<pc, err, args, nSamples, trainable, generator_model,
                   discriminator_model, optim, labels, epoch, numGroups, i, minibatch,
                   saved, files, shuffles, call>>

\* Mutant: the exception is caught and the loop goes on.
DiscStepFails_Swallowed ==
    /\ pc = "for_j"
    /\ j + 1 < DiscLoopLen
    /\ j' = j + 1
    /\ lastStep' = DiscCall
    /\ err' = "TrainError"
    /\ UNCHANGED <<pc, args, nSamples, trainable, generator_model, discriminator_model,
                   optim, labels, epoch, numGroups, i, minibatch, trace, used, weights,
                   saved, files, shuffles, call>>

\* One discriminator_model.train_on_batch that raises: nothing catches it.
DiscStepFails ==
    /\ pc = "for_j"
    /\ j + 1 < DiscLoopLen
    /\ j' = j + 1
    /\ lastStep' = DiscCall
    /\ Raise("TrainError")
    /\ UNCHANGED <<args, nSamples, trainable, generator_model, discriminator_model,
                   optim, labels, epoch, numGroups, i, minibatch, trace, used, weights,
                   saved, files, shuffles, call>>

\* The discriminator loop is exhausted: one generator_model.train_on_batch.
GenStep ==
    /\ pc = "for_j"
    /\ j + 1 >= DiscLoopLen
    /\ lastStep' = GenCall
    /\ trace' = Append(trace, "G")
    /\ weights' = Updated(weights, generator_model.flags)
    /\ pc' = "for_i"
    /\ UNCHANGED <<err, args, nSamples, trainable, generator_model, discriminator_model,
                   optim, labels, epoch, numGroups, i, j, minibatch, used, saved, files,
                   shuffles, call>>

GenStepFails ==
    /\ pc = "for_j"
    /\ j + 1 >= DiscLoopLen
    /\ lastStep' = GenCall
    /\ Raise("TrainError")
    /\ UNCHANGED <<args, nSamples, trainable, generator_model, discriminator_model,
                   optim, labels, epoch, numGroups, i, j, minibatch, trace, used,
                   weights, saved, files, shuffles, call>>

\* Mutant: the test written on the 0-indexed epoch.
IsCheckpointEpoch_ZeroIndexed(e) == e % CheckpointEvery = 0

\* if((epoch+1) % 2 == 0)
IsCheckpointEpoch(e) == (e + 1) % CheckpointEvery = 0

\* The minibatch loop is exhausted: the checkpoint test.
EndEpoch ==
    /\ pc = "for_i"
    /\ i + 1 >= numGroups
    /\ pc' = IF IsCheckpointEpoch(epoch) THEN "generate_images" ELSE "for_epoch"
    /\ UNCHANGED <<err, args, nSamples, trainable, generator_model, discriminator_model,
                   optim, labels, epoch, numGroups, i, j, minibatch, lastStep, trace,
                   used, weights, saved, files, shuffles, call>>

\* 'epoch_{}<suffix>'.format(e)
FileName(e, suffix) == <<"epoch_", e, suffix>>

\* generate_images(generator, args.output_dir, epoch): the .png, then the .pkl.
GenerateImages ==
    /\ pc = "generate_images"
    /\ files' = files \cup {FileName(epoch, ".png"), FileName(epoch, ".pkl")}
    /\ pc' = "save_generator"
    /\ UNCHANGED <<err, args, nSamples, trainable, generator_model, discriminator_model,
                   optim, labels, epoch, numGroups, i, j, minibatch, lastStep, trace,
                   used, weights, saved, shuffles, call>>

\* generator.save_weights(.../epoch_{}_g.h5)
SaveGenerator ==
    /\ pc = "save_generator"
    /\ files' = files \cup {FileName(epoch, "_g.h5")}
    /\ saved' = [saved EXCEPT !.g = weights.g]
    /\ pc' = "save_discriminator"
    /\ UNCHANGED <<err, args, nSamples, trainable, generator_model, discriminator_model,
                   optim, labels, epoch, numGroups, i, j, minibatch, lastStep, trace,
                   used, weights, shuffles, call>>

\* Mutant: the generator's weights are written to the _d.h5 file.
SaveDiscriminator_SavesGenerator ==
    /\ pc = "save_discriminator"
    /\ files' = files \cup {FileName(epoch, "_d.h5")}
    /\ saved' = [saved EXCEPT !.d = weights.g]
    /\ pc' = "for_epoch"
    /\ UNCHANGED <<err, args, nSamples, trainable, generator_model, discriminator_model,
                   optim, labels, epoch, numGroups, i, j, minibatch, lastStep, trace,
                   used, weights, shuffles, call>>

\* discriminator.save_weights(.../epoch_{}_d.h5)
SaveDiscriminator ==
    /\ pc = "save_discriminator"
    /\ files' = files \cup {FileName(epoch, "_d.h5")}
    /\ saved' = [saved EXCEPT !.d = weights.d]
    /\ pc' = "for_epoch"
    /\ UNCHANGED <<err, args, nSamples, trainable, generator_model, discriminator_model,
                   optim, labels, epoch, numGroups, i, j, minibatch, lastStep, trace,
                   used, weights, shuffles, call>>

Training ==
    \/ EpochStart
    \/ GroupStart
    \/ DiscStep
    \/ DiscStepFails
    \/ GenStep
    \/ GenStepFails
    \/ EndEpoch
    \/ GenerateImages
    \/ SaveGenerator
    \/ SaveDiscriminator
    \/ Finish

Next == Startup \/ Training

Spec == Init /\ [][Next]_vars

\* The script is one synchronous thread: it takes its next step whenever it has one.
FairSpec == Spec /\ WF_vars(Next)

-----------------------------------------------------------------------------
(* Properties of the training run *)

\* C1: within an epoch the training steps are TRAINING_RATIO discriminator steps,
\* then one generator step, repeated: step k of the epoch is a generator step
\* exactly when k is a multiple of TRAINING_RATIO + 1, and each completed
\* minibatch group has contributed exactly TRAINING_RATIO + 1 steps.
C1_RatioThenOne ==
    /\ trace # <<>> => args.training_ratio >= 1
    /\ \A k \in 1..Len(trace) :
           trace[k] = IF k % (args.training_ratio + 1) = 0 THEN "G" ELSE "D"
    /\ (pc = "for_i" /\ trace # <<>>) => Len(trace) = (i + 1) * (args.training_ratio + 1)
    /\ (pc = "for_j" /\ args.training_ratio >= 1) =>
           Len(trace) = i * (args.training_ratio + 1) + (j + 1)

C1_Witness ==
    /\ epoch = 1
    /\ args.training_ratio = 2
    /\ trace = <<"D", "D", "G">>

CheckpointSuffixes == {"_g.h5", "_d.h5", ".png", ".pkl"}

\* C2: the output directory holds epoch_<N>_g.h5, epoch_<N>_d.h5, epoch_<N>.png and
\* epoch_<N>.pkl for every N in 1, 3, 5, ... whose epoch (loop value N) is over, and
\* no file named for any other epoch.
C2_CheckpointFiles ==
    /\ \A f \in files :
          /\ f[1] = "epoch_"
          /\ f[2] \in 0..epoch
          /\ f[2] % 2 = 1
          /\ f[3] \in CheckpointSuffixes
    /\ \A e \in 0..(NumEpochs - 1) :
          (e % 2 = 1 /\ (e < epoch \/ (e = epoch /\ pc \in {"for_epoch", "done"})))
             => \A sfx \in CheckpointSuffixes : <<"epoch_", e, sfx>> \in files

C2_Witness ==
    /\ pc = "done"
    /\ Cardinality(files) = 100
    /\ <<"epoch_", 49, "_d.h5">> \in files
    /\ <<"epoch_", 1, ".png">> \in files

\* C3: generator_model is compiled with the discriminator and all its layers
\* frozen and the generator trainable; discriminator_model is compiled with the
\* discriminator and all its layers trainable and the generator and all its
\* layers frozen; so exactly one of the two is compiled with the discriminator frozen.
C3_FlagsAtCompile ==
    /\ (generator_model.set /\ generator_model.compiled) =>
          /\ ~generator_model.flags.d
          /\ \A l \in DiscriminatorLayers : ~generator_model.flags.dl[l]
          /\ generator_model.flags.g
          /\ \A l \in GeneratorLayers : generator_model.flags.gl[l]
    /\ (discriminator_model.set /\ discriminator_model.compiled) =>
          /\ discriminator_model.flags.d
          /\ \A l \in DiscriminatorLayers : discriminator_model.flags.dl[l]
          /\ ~discriminator_model.flags.g
          /\ \A l \in GeneratorLayers : ~discriminator_model.flags.gl[l]
          /\ generator_model.compiled
          /\ Trains(discriminator_model.flags, "d") # Trains(generator_model.flags, "d")
          /\ Trains(discriminator_model.flags, "g") # Trains(generator_model.flags, "g")

C3_Witness ==
    /\ discriminator_model.set
    /\ discriminator_model.compiled
    /\ lastStep.kind = "G"

InvalidSchedule == args.schedule \notin {"None", "adagrad", "adam"}

InvalidOptimizer ==
    args.optimizer \notin {"SGD", "OFRL", "OMDA", "optimAdam", "extraOptimAdam",
                           "optimAdagrad"}

\* C4: with a --schedule outside none/adagrad/adam, or an --optimizer that is
\* neither SGD nor a key of the optimizer table, the run never gets past optimizer
\* construction: no training step runs, no file is written, and the run never
\* completes; the optimizer lookup fails with a KeyError.
C4_InvalidConfigNeverTrains ==
    (InvalidSchedule \/ InvalidOptimizer) =>
        /\ pc \in {"load_data", "make_networks", "build_generator_model",
                   "check_schedule", "make_optimizers", "error"}
        /\ lastStep = NoStep
        /\ trace = <<>>
        /\ weights = [g |-> 0, d |-> 0]
        /\ files = {}
        /\ epoch = -1
        /\ err \in {"none", "NameError", "ValueError", "KeyError"}
        /\ (err = "ValueError") => InvalidSchedule
        /\ (err = "KeyError") => (InvalidOptimizer /\ ~InvalidSchedule)
        /\ (pc = "make_optimizers") => ~InvalidSchedule

C4_Witness ==
    /\ pc = "error"
    /\ err = "KeyError"
    /\ args.optimizer = "RMSprop"
    /\ args.schedule = "adam"

\* C5: every run ends, completed or failed, and a run completes only after exactly
\* 50 epochs, whatever the training steps returned.
C5_FixedEpochCount ==
    /\ <>(pc \in {"done", "error"})
    /\ [](pc = "done" => (shuffles = 50 /\ epoch = 49 /\ err = "none"))

C5_Witness ==
    /\ pc = "done"
    /\ shuffles = 50
    /\ weights.d > 0
    /\ weights.g > 0

\* C6: a raised exception ends the run at once, and after it no training step,
\* epoch or file write happens: the files written before it stay as they are.
C6_FailureIsFatal ==
    [][/\ (err' # "none") => (pc' = "error")
       /\ (err # "none") =>
             UNCHANGED <<pc, err, epoch, i, j, lastStep, trace, used, weights, saved,
                         files, shuffles>>]_vars

C6_Witness ==
    /\ pc = "error"
    /\ err = "TrainError"
    /\ files # {}
    /\ lastStep.kind = "G"

\* C10: every discriminator step gets the label vectors (+1, -1, 0) for the
\* outputs (real, generated, averaged), every generator step gets the +1 vector,
\* and the three label vectors never change.
C10_ConstantLabels ==
    /\ labels.set =>
          /\ labels.positive_y = [k \in 1..BATCH_SIZE |-> 1]
          /\ labels.negative_y = [k \in 1..BATCH_SIZE |-> -1]
          /\ labels.dummy_y = [k \in 1..BATCH_SIZE |-> 0]
    /\ (lastStep.kind = "D") =>
          /\ discriminator_model.outputs = <<"real", "generated", "averaged">>
          /\ lastStep.y = <<[k \in 1..BATCH_SIZE |-> 1], [k \in 1..BATCH_SIZE |-> -1],
                            [k \in 1..BATCH_SIZE |-> 0]>>
    /\ (lastStep.kind = "G") => lastStep.y = <<[k \in 1..BATCH_SIZE |-> 1]>>

C10_Witness ==
    /\ lastStep.kind = "D"
    /\ epoch = 49
    /\ j = 1

\* The minibatch loop of the current epoch has run to its end.
EpochBodyDone ==
    \/ pc \in {"generate_images", "save_generator", "save_discriminator", "done"}
    \/ (pc = "for_epoch" /\ epoch >= 0)

\* C11: with TRAINING_RATIO >= 1 and N samples an epoch has exactly
\* N div (BATCH_SIZE * TRAINING_RATIO) minibatch groups; every discriminator step
\* gets exactly BATCH_SIZE samples with indices below N; the batches of one epoch
\* are pairwise disjoint; and no batch reaches into the trailing
\* N mod (BATCH_SIZE * TRAINING_RATIO) samples.
C11_BatchesPartitionEpoch ==
    (args.training_ratio >= 1 /\ epoch >= 0) =>
        /\ numGroups = nSamples \div (64 * args.training_ratio)
        /\ i < numGroups
        /\ EpochBodyDone =>
              /\ i + 1 = numGroups
              /\ Len(used) = numGroups * args.training_ratio
              /\ Len(trace) = numGroups * (args.training_ratio + 1)
        /\ \A k \in 1..Len(used) :
              /\ used[k].hi - used[k].lo = 64
              /\ used[k].lo >= 0
              /\ used[k].hi <= nSamples - (nSamples % (64 * args.training_ratio))
        /\ \A k \in 1..Len(used) : \A l \in 1..Len(used) :
              (k < l) => (used[k].hi <= used[l].lo \/ used[l].hi <= used[k].lo)
        /\ (lastStep.kind = "D") =>
              /\ lastStep.x[1].hi - lastStep.x[1].lo = 64
              /\ lastStep.x[1].lo >= 0
              /\ lastStep.x[1].hi <= nSamples - (nSamples % (64 * args.training_ratio))

C11_Witness ==
    /\ args.training_ratio = 2
    /\ nSamples = 3 * 64 - 1
    /\ epoch = 1
    /\ EpochBodyDone
    /\ used = <<[lo |-> 0, hi |-> 64], [lo |-> 64, hi |-> 128]>>

\* C12: a completed run ended with a checkpoint: the last epoch, 49, wrote its
\* weight files, and the weights they hold are the networks' weights at the end,
\* so no training step followed the last save.
C12_LastCheckpointIsFinal ==
    (pc = "done") =>
        /\ epoch = 49
        /\ (epoch + 1) % 2 = 0
        /\ <<"epoch_", 49, "_g.h5">> \in files
        /\ <<"epoch_", 49, "_d.h5">> \in files
        /\ saved.g = weights.g
        /\ saved.d = weights.d

C12_Witness ==
    /\ pc = "done"
    /\ weights.g = 50
    /\ weights.d = 100
    /\ saved = weights

-----------------------------------------------------------------------------
(* Pure functions (lines 44-72, 201-211).  Numbers are exact: a mean is the  *)
(* rational num/den, gradients are fixed-point with GScale units to 1.0, and *)
(* interpolation weights are fixed-point with WeightRes units to 1.0.        *)

RECURSIVE Sum(_)
\* K.sum / np.sum over a vector
Sum(v) == IF Len(v) = 0 THEN 0 ELSE v[Len(v)] + Sum(SubSeq(v, 1, Len(v) - 1))

\* elementwise a * b
Product(a, b) == [k \in 1..Len(a) |-> a[k] * b[k]]

\* K.mean over a vector, as the exact rational num/den
Mean(v) == [num |-> Sum(v), den |-> Len(v)]

Max(a, b) == IF a >= b THEN a ELSE b

\* Mutant: the loss clamped at zero.
wasserstein_loss_Clamped(y_true, y_pred) ==
    [num |-> Max(0, Sum(Product(y_true, y_pred))), den |-> Len(y_pred)]

\* return K.mean(y_true * y_pred)
wasserstein_loss(y_true, y_pred) == Mean(Product(y_true, y_pred))

\* K.square, elementwise
Square(v) == [k \in 1..Len(v) |-> v[k] * v[k]]

\* K.sqrt of a fixed-point number with GScale * GScale units to 1.0, rounded
\* down to GScale units to 1.0.
Sqrt(x) == CHOOSE r \in 0..x : r * r <= x /\ x < (r + 1) * (r + 1)

\* gradient_l2_norm = K.sqrt(K.sum(K.square(gradients)))
GradientL2Norm(gradients) == Sqrt(Sum(Square(gradients)))

\* Mutant: the one-sided penalty, which charges only norms above 1.
gradient_penalty_loss_OneSided(gradients, gradient_penalty_weight) ==
    gradient_penalty_weight
      * (Max(0, GradientL2Norm(gradients) - GScale)
         * Max(0, GradientL2Norm(gradients) - GScale))

\* gradient_penalty_weight * K.square(1 - gradient_l2_norm), where gradients is
\* K.gradients(K.sum(y_pred), averaged_samples); y_true is not read.
gradient_penalty_loss(gradients, gradient_penalty_weight) ==
    gradient_penalty_weight
      * ((GScale - GradientL2Norm(gradients)) * (GScale - GradientL2Norm(gradients)))

\* Mutant: weights drawn from [0, 2).
random_uniform_Wide(n) == [1..n -> 0..(2 * WeightRes - 1)]

\* The possible results of K.random_uniform((n, 1, 1, 1)): n numbers in [0, 1).
random_uniform(n) == [1..n -> 0..(WeightRes - 1)]

\* (weights * inputs[0]) + ((1 - weights) * inputs[1]): the weight of a pair is
\* broadcast over the components of its samples.  In units of 1/WeightRes.
RandomWeightedAverage(w, inputs) ==
    [b \in 1..Len(inputs[1]) |->
        [c \in 1..Len(inputs[1][b]) |->
            w[b] * inputs[1][b][c] + (WeightRes - w[b]) * inputs[2][b][c]]]

Vectors(n) == [1..n -> (0 - MaxVal)..MaxVal]

Gradients == [1..GradDim -> (0 - 2 * GScale)..(2 * GScale)]

\* Values of --gp (type=float, default 10.0)
GPWeights == ((0 - MaxGP)..MaxGP) \cup {DefaultGP}

\* Pixels are normalised to [-1, 1] and the generator ends in tanh.
Pixels == {-1, 1}

SampleBatches == [1..AvgPairs -> [1..SampleDim -> Pixels]]

\* The calls to evaluate: a function and its arguments.
PendingCalls ==
    UNION {
        {[fn |-> "wasserstein_loss", done |-> FALSE, y_true |-> yt, y_pred |-> yp] :
            yt \in Vectors(n), yp \in Vectors(n)} : n \in 1..MaxLen}
    \cup {[fn |-> "gradient_penalty_loss", done |-> FALSE, gradients |-> g, weight |-> w] :
            g \in Gradients, w \in GPWeights}
    \cup {[fn |-> "RandomWeightedAverage", done |-> FALSE, real |-> r, generated |-> g] :
            r \in SampleBatches, g \in SampleBatches}

EvalWassersteinLoss ==
    /\ call.fn = "wasserstein_loss"
    /\ ~call.done
    /\ call' = [call EXCEPT !.done = TRUE] @@
               [out |-> wasserstein_loss(call.y_true, call.y_pred)]
    /\ UNCHANGED runVars

EvalGradientPenaltyLoss ==
    /\ call.fn = "gradient_penalty_loss"
    /\ ~call.done
    /\ call' = [call EXCEPT !.done = TRUE] @@
               [norm |-> GradientL2Norm(call.gradients),
                out |-> gradient_penalty_loss(call.gradients, call.weight)]
    /\ UNCHANGED runVars

\* The weights are drawn inside the merge function, one draw per call.
EvalRandomWeightedAverage ==
    /\ call.fn = "RandomWeightedAverage"
    /\ ~call.done
    /\ \E w \in random_uniform(Len(call.real)) :
          call' = [call EXCEPT !.done = TRUE] @@
                  [weights |-> w,
                   out |-> RandomWeightedAverage(w, <<call.real, call.generated>>)]
    /\ UNCHANGED runVars

DefaultArgs ==
    [optimizer |-> "SGD", schedule |-> None, model |-> "std_conv",
     training_ratio |-> DefaultRatio]

FnInit ==
    /\ RunInit
    /\ args = DefaultArgs
    /\ call \in PendingCalls

FnNext ==
    \/ EvalWassersteinLoss
    \/ EvalGradientPenaltyLoss
    \/ EvalRandomWeightedAverage

FnSpec == FnInit /\ [][FnNext]_vars

-----------------------------------------------------------------------------
(* Properties of the pure functions *)

RatEq(r, q) == r.num * q.den = q.num * r.den

RatAdd(r, q) == [num |-> r.num * q.den + q.num * r.den, den |-> r.den * q.den]

RatScale(a, r) == [num |-> a * r.num, den |-> r.den]

VecAdd(p, q) == [k \in 1..Len(p) |-> p[k] + q[k]]

VecScale(a, p) == [k \in 1..Len(p) |-> a * p[k]]

\* C7 as stated: for every weight, the penalty is 0 exactly when the norm is 1.
C7_ZeroIffUnitNorm ==
    (call.fn = "gradient_penalty_loss" /\ call.done) => ((call.out = 0) <=> (call.norm = GScale))

\* C7, amended: the penalty is 0 whenever the gradient norm is 1; for a nonzero
\* weight it is 0 only then; for the weight 0 it is 0 for every gradient norm.
C7_ZeroIffUnitNormOrZeroWeight ==
    (call.fn = "gradient_penalty_loss" /\ call.done) =>
        /\ (call.norm = GScale) => (call.out = 0)
        /\ (call.weight # 0) => ((call.out = 0) <=> (call.norm = GScale))
        /\ (call.weight = 0) => (call.out = 0)

C7_Witness ==
    /\ call.fn = "gradient_penalty_loss"
    /\ call.done
    /\ call.weight = DefaultGP
    /\ call.norm = GScale
    /\ call.out = 0

\* C8: wasserstein_loss is linear in y_pred (additive and homogeneous), and
\* wasserstein_loss(y, -y) = -wasserstein_loss(y, y); so negative results are
\* returned as they are.
C8_WassersteinLinear ==
    (call.fn = "wasserstein_loss" /\ call.done) =>
        /\ \A q \in Vectors(Len(call.y_pred)) :
              RatEq(wasserstein_loss(call.y_true, VecAdd(call.y_pred, q)),
                    RatAdd(call.out, wasserstein_loss(call.y_true, q)))
        /\ \A a \in (0 - MaxVal - 1)..(MaxVal + 1) :
              RatEq(wasserstein_loss(call.y_true, VecScale(a, call.y_pred)),
                    RatScale(a, call.out))
        /\ RatEq(wasserstein_loss(call.y_pred, VecScale(-1, call.y_pred)),
                 RatScale(-1, wasserstein_loss(call.y_pred, call.y_pred)))
        /\ (call.y_true = VecScale(-1, call.y_pred)) =>
              RatEq(call.out, RatScale(-1, wasserstein_loss(call.y_pred, call.y_pred)))

C8_Witness ==
    /\ call.fn = "wasserstein_loss"
    /\ call.done
    /\ Len(call.y_pred) = 2
    /\ call.y_true = <<1, 1>>
    /\ call.y_pred = <<-1, 0>>
    /\ call.out.num < 0

\* C9: each pair has one weight, in [0, 1), that gives every component of its
\* averaged sample as weight * real + (1 - weight) * generated, and every
\* component lies between the real and the generated component.
C9_ConvexPerPair ==
    (call.fn = "RandomWeightedAverage" /\ call.done) =>
        \A b \in 1..Len(call.real) :
            /\ call.weights[b] >= 0
            /\ call.weights[b] < WeightRes
            /\ \E w \in 0..(WeightRes - 1) : \A c \in 1..Len(call.real[b]) :
                  call.out[b][c]
                    = w * call.real[b][c] + (WeightRes - w) * call.generated[b][c]
            /\ \A c \in 1..Len(call.real[b]) :
                  /\ call.out[b][c]
                       >= WeightRes * Min(call.real[b][c], call.generated[b][c])
                  /\ call.out[b][c]
                       <= WeightRes * Max(call.real[b][c], call.generated[b][c])

C9_Witness ==
    /\ call.fn = "RandomWeightedAverage"
    /\ call.done
    /\ call.weights[1] = 1
    /\ call.real[1] = <<1, -1>>
    /\ call.generated[1] = <<-1, 1>>
    /\ call.out[1] = <<0, 0>>

====
